---- MODULE Spec2Model ----
(***************************************************************************)
(* BluffBot: a two-player card-bluffing game against an adaptive bot.      *)
(* engine.py holds the game (GameState, player_turn, bot_act) and the      *)
(* bot's belief model (BluffBotAI); app.py drives them from two buttons.   *)
(*                                                                         *)
(* Probabilities are floats in the source.  Here an estimate is the exact  *)
(* fraction <<numerator, denominator>>, noise is counted in thousandths    *)
(* and the bot's rand() draw in hundredths.  For every count pair          *)
(* 0 <= b <= t < 47 the float expressions (b+1)/(t+3) == 0.35, int(p*100)  *)
(* and p + noise > 0.55 agree with the exact arithmetic used below (first  *)
(* disagreement of int(p*100): b = 28, t = 47).                            *)
(***************************************************************************)
EXTENDS Integers, Sequences, FiniteSets, TLC

\* ------------------------------------------------------------------------
\* Program constants
\* ------------------------------------------------------------------------
HAND_SIZE == 5

MAX_ROUNDS == 10

\* lowest and highest card strength drawn by np.random.randint(1, 11, size)
MIN_STRENGTH == 1

MAX_STRENGTH == 10

\* the prior written as the honest rate, 0.65
PRIOR_PCT_honest == 100 - 35

\* the prior 0.35, in hundredths
PRIOR_PCT == 35

\* a threshold of 0.65
THRESHOLD_MILLI_high == 550 + 100

\* the call threshold 0.55, in thousandths
THRESHOLD_MILLI == 550

\* the noise half-width 0.05, in thousandths
NOISE_MILLI == 50

\* the bot bluffs when rand() < 0.30; in hundredths
BOT_BLUFF_PCT == 30

\* ------------------------------------------------------------------------
\* Bounds of the model
\* ------------------------------------------------------------------------
\* turns played in one session (all games together) under Spec
MaxTurns == 6

\* turns played through the bare engine API under SpecCore
MaxCoreTurns == 5

\* observations of one context under SpecBelief
MaxCount == 18

\* ------------------------------------------------------------------------
\* Pure helpers
\* ------------------------------------------------------------------------
\* min() taken as the first card of the list
SeqMin_first(s) == s[1]

RECURSIVE SeqMin(_)
SeqMin(s) ==
  IF Len(s) = 1 THEN s[1]
  ELSE LET m == SeqMin(Tail(s)) IN IF s[1] <= m THEN s[1] ELSE m

RECURSIVE SeqMax(_)
SeqMax(s) ==
  IF Len(s) = 1 THEN s[1]
  ELSE LET m == SeqMax(Tail(s)) IN IF s[1] >= m THEN s[1] ELSE m

\* remove() dropping every card equal to x
ListRemove_all(s, x) == SelectSeq(s, LAMBDA e : e # x)

\* list.remove(x): drops the first element equal to x
RECURSIVE ListRemove(_, _)
ListRemove(s, x) ==
  IF s = <<>> THEN <<>>
  ELSE IF s[1] = x THEN Tail(s)
  ELSE <<s[1]>> \o ListRemove(Tail(s), x)

strength_bucket(card_strength) ==
  IF card_strength <= 3 THEN "weak"
  ELSE IF card_strength <= 7 THEN "medium"
  ELSE "strong"

\* the claim categories the app offers
Claims == {"low", "medium", "high"}

\* ------------------------------------------------------------------------
\* BluffBotAI: context_stats maps (bucket, claim) to <<bluff_count, total_count>>
\* ------------------------------------------------------------------------
EmptyStats == [k \in {} |-> <<0, 0>>]

StatsGet(stats, key) == IF key \in DOMAIN stats THEN stats[key] ELSE <<0, 0>>

\* update_stats learning only from plays the caller flags, and flagging none
update_stats_no_bluff(stats, actual_strength, claim, did_bluff) ==
  LET key == <<strength_bucket(actual_strength), claim>>
      bt  == StatsGet(stats, key)
  IN [k \in (DOMAIN stats) \cup {key} |->
        IF k = key THEN <<bt[1], bt[2] + 1>> ELSE stats[k]]

\* update_stats counting a bluff streak: an honest play clears bluff_count
update_stats_streak(stats, actual_strength, claim, did_bluff) ==
  LET key == <<strength_bucket(actual_strength), claim>>
      bt  == StatsGet(stats, key)
  IN [k \in (DOMAIN stats) \cup {key} |->
        IF k = key THEN <<IF did_bluff THEN bt[1] + 1 ELSE 0, bt[2] + 1>>
        ELSE stats[k]]

update_stats(stats, actual_strength, claim, did_bluff) ==
  LET key == <<strength_bucket(actual_strength), claim>>
      bt  == StatsGet(stats, key)
  IN [k \in (DOMAIN stats) \cup {key} |->
        IF k = key THEN <<bt[1] + (IF did_bluff THEN 1 ELSE 0), bt[2] + 1>>
        ELSE stats[k]]

\* bluff_probability as the raw rate b / t
bluff_probability_raw(stats, actual_strength, claim) ==
  LET key == <<strength_bucket(actual_strength), claim>>
  IN IF key \notin DOMAIN stats THEN <<PRIOR_PCT, 100>>
     ELSE <<stats[key][1], stats[key][2]>>

\* bluff_probability with the two-outcome Laplace rule (b + 1) / (t + 2)
bluff_probability_plus2(stats, actual_strength, claim) ==
  LET key == <<strength_bucket(actual_strength), claim>>
  IN IF key \notin DOMAIN stats THEN <<PRIOR_PCT, 100>>
     ELSE <<stats[key][1] + 1, stats[key][2] + 2>>

\* the estimate as an exact fraction <<numerator, denominator>>
bluff_probability(stats, actual_strength, claim) ==
  LET key == <<strength_bucket(actual_strength), claim>>
  IN IF key \notin DOMAIN stats THEN <<PRIOR_PCT, 100>>
     ELSE <<stats[key][1] + 1, stats[key][2] + 3>>

\* decide_call with suspicion rounded to the nearest integer (ties upward)
decide_call_round(stats, actual_strength, claim, noise) ==
  LET p_bluff == bluff_probability(stats, actual_strength, claim)
  IN [p_bluff   |-> p_bluff,
      suspicion |-> (p_bluff[1] * 200 + p_bluff[2]) \div (2 * p_bluff[2]),
      call      |-> p_bluff[1] * 1000 + noise * p_bluff[2]
                      > THRESHOLD_MILLI * p_bluff[2]]

\* decide_call calling at the threshold too (>= for >)
decide_call_ge(stats, actual_strength, claim, noise) ==
  LET p_bluff == bluff_probability(stats, actual_strength, claim)
  IN [p_bluff   |-> p_bluff,
      suspicion |-> (p_bluff[1] * 100) \div p_bluff[2],
      call      |-> p_bluff[1] * 1000 + noise * p_bluff[2]
                      >= THRESHOLD_MILLI * p_bluff[2]]

\* noise is np.random.uniform(-0.05, 0.05) in thousandths
decide_call(stats, actual_strength, claim, noise) ==
  LET p_bluff == bluff_probability(stats, actual_strength, claim)
  IN [p_bluff   |-> p_bluff,
      suspicion |-> (p_bluff[1] * 100) \div p_bluff[2],
      call      |-> p_bluff[1] * 1000 + noise * p_bluff[2]
                      > THRESHOLD_MILLI * p_bluff[2]]

\* representative noise draws: both ends and the middle of the band
Noise == {-NOISE_MILLI, 0, NOISE_MILLI}

\* ------------------------------------------------------------------------
\* Game state
\* ------------------------------------------------------------------------
VARIABLES
  round_num,      \* GameState.round_num
  player_hand,    \* GameState.player.hand
  player_score,   \* GameState.player.score
  bot_hand,       \* GameState.bot.hand
  bot_score,      \* GameState.bot.score
  history,        \* GameState.history, one record per row
  last_message,   \* GameState.last_message
  game_over,      \* GameState.game_over
  context_stats,  \* BluffBotAI.context_stats
  decision,       \* what decide_call returned in the last call, if it ran
  err             \* the exception the last call raised, or "none"

vars == <<round_num, player_hand, player_score, bot_hand, bot_score, history,
          last_message, game_over, context_stats, decision, err>>

game_vars == <<round_num, player_hand, player_score, bot_hand, bot_score,
               history, last_message, game_over>>

\* the suspicion field of a message that shows none
NoSuspicion == 0 - 1

NoDecision == [p_bluff |-> <<0, 1>>, suspicion |-> NoSuspicion, call |-> FALSE]

Message(text, suspicion, over) ==
  [text |-> text, suspicion |-> suspicion, game_over_suffix |-> over]

\* log_event putting the new row first
log_event_prepend(hist, round, actor, actual_strength, claim, did_bluff, bot_called, result) ==
  <<[round           |-> round,
     actor           |-> actor,
     actual_strength |-> actual_strength,
     claim           |-> claim,
     did_bluff       |-> IF did_bluff THEN 1 ELSE 0,
     bot_called      |-> IF bot_called THEN 1 ELSE 0,
     result          |-> result]>> \o hist

log_event(hist, round, actor, actual_strength, claim, did_bluff, bot_called, result) ==
  Append(hist, [round           |-> round,
                actor           |-> actor,
                actual_strength |-> actual_strength,
                claim           |-> claim,
                did_bluff       |-> IF did_bluff THEN 1 ELSE 0,
                bot_called      |-> IF bot_called THEN 1 ELSE 0,
                result          |-> result])

\* ------------------------------------------------------------------------
\* init_game: two fresh hands; the belief model is not touched
\* ------------------------------------------------------------------------
\* the hands draw_hand() may return: any HAND_SIZE strengths in 1..10.
\* The model draws from these representatives.
PlayerHands == { <<2, 9, 5, 1, 8>>, <<1, 3, 2, 3, 1>> }

BotHands == { <<4, 10, 1, 7, 4>> }

\* init_game that also starts a fresh belief model
init_game_fresh_ai(ph, bh) ==
  /\ round_num' = 1
  /\ player_hand' = ph
  /\ player_score' = 0
  /\ bot_hand' = bh
  /\ bot_score' = 0
  /\ history' = <<>>
  /\ last_message' = Message("New game started. Your move!", NoSuspicion, FALSE)
  /\ game_over' = FALSE
  /\ decision' = NoDecision
  /\ err' = "none"
  /\ context_stats' = EmptyStats

init_game(ph, bh) ==
  /\ ph \in [1..HAND_SIZE -> MIN_STRENGTH..MAX_STRENGTH]
  /\ bh \in [1..HAND_SIZE -> MIN_STRENGTH..MAX_STRENGTH]
  /\ round_num' = 1
  /\ player_hand' = ph
  /\ player_score' = 0
  /\ bot_hand' = bh
  /\ bot_score' = 0
  /\ history' = <<>>
  /\ last_message' = Message("New game started. Your move!", NoSuspicion, FALSE)
  /\ game_over' = FALSE
  /\ decision' = NoDecision
  /\ err' = "none"
  /\ UNCHANGED context_stats

\* ------------------------------------------------------------------------
\* bot_act: the bot's own play.  r is rand() in hundredths, claim the value
\* np.random.choice returned.  Pure part: the bot's new hand and score and
\* the log with the bot's record appended.
\* ------------------------------------------------------------------------
\* bot_claim_options with one list for both cases
bot_claim_options_any(bluff) == {"low", "medium", "high"}

bot_claim_options(bluff) ==
  IF bluff THEN {"medium", "high"} ELSE {"low", "medium", "high"}

\* bot_act scoring every play, bluff or not
bot_act_always_scores(hand, score, hist, round, r, claim) ==
  LET bluff           == r < BOT_BLUFF_PCT
      actual_strength == IF bluff THEN SeqMin(hand) ELSE SeqMax(hand)
      bot_called      == FALSE
  IN [hand    |-> ListRemove(hand, actual_strength),
      score   |-> score + 1,
      history |-> log_event(hist, round, "bot", actual_strength, claim, bluff,
                            bot_called,
                            IF bluff THEN "Bot bluff succeeded (+1 Bot)"
                            ELSE "Bot honest play")]

bot_act(hand, score, hist, round, r, claim) ==
  LET bluff           == r < BOT_BLUFF_PCT
      actual_strength == IF bluff THEN SeqMin(hand) ELSE SeqMax(hand)
      bot_called      == FALSE
  IN [hand    |-> ListRemove(hand, actual_strength),
      score   |-> IF bluff THEN score + 1 ELSE score,
      history |-> log_event(hist, round, "bot", actual_strength, claim, bluff,
                            bot_called,
                            IF bluff THEN "Bot bluff succeeded (+1 Bot)"
                            ELSE "Bot honest play")]

\* the rand() draws of the model, in hundredths: both sides of 0.30
BotRand == {0, BOT_BLUFF_PCT - 1, BOT_BLUFF_PCT, 99}

\* ------------------------------------------------------------------------
\* player_turn
\* ------------------------------------------------------------------------
\* resolve giving no point for a wrong call
resolve_no_point(bot_called, bluff) ==
  IF bot_called
  THEN IF bluff
       THEN [bot |-> 1, player |-> 0,
             result |-> "Bot caught your bluff (+1 Bot)",
             text   |-> "Bot called bluff! Caught you."]
       ELSE [bot |-> 0, player |-> 0,
             result |-> "Bot wrongly called bluff (+1 You)",
             text   |-> "Bot called bluff! You were honest."]
  ELSE IF bluff
       THEN [bot |-> 0, player |-> 1,
             result |-> "Your bluff succeeded (+1 You)",
             text   |-> "Bot accepted. Bluff worked!"]
       ELSE [bot |-> 0, player |-> 0,
             result |-> "Honest play (no call)",
             text   |-> "Bot accepted. Honest play."]

\* the result tag and message of the 2x2 table on (bot_called, bluff)
resolve(bot_called, bluff) ==
  IF bot_called
  THEN IF bluff
       THEN [bot |-> 1, player |-> 0,
             result |-> "Bot caught your bluff (+1 Bot)",
             text   |-> "Bot called bluff! Caught you."]
       ELSE [bot |-> 0, player |-> 1,
             result |-> "Bot wrongly called bluff (+1 You)",
             text   |-> "Bot called bluff! You were honest."]
  ELSE IF bluff
       THEN [bot |-> 0, player |-> 1,
             result |-> "Your bluff succeeded (+1 You)",
             text   |-> "Bot accepted. Bluff worked!"]
       ELSE [bot |-> 0, player |-> 0,
             result |-> "Honest play (no call)",
             text   |-> "Bot accepted. Honest play."]

\* round_ends_game with "and" for "or"
round_ends_game_and(round, ph, bh) ==
  round > MAX_ROUNDS /\ (Len(ph) = 0 /\ Len(bh) = 0)

\* round_ends_game testing the round limit alone
round_ends_game_limit_only(round, ph, bh) == round > MAX_ROUNDS

\* the end-of-round test
round_ends_game(round, ph, bh) ==
  round > MAX_ROUNDS \/ (Len(ph) = 0 /\ Len(bh) = 0)

\* the failure noticed only after the round was advanced
raise_after_advance ==
  /\ err' = "ValueError"
  /\ decision' = NoDecision
  /\ round_num' = round_num + 1
  /\ UNCHANGED <<player_hand, player_score, bot_hand, bot_score, history,
                 last_message, game_over, context_stats>>

\* min()/max() of the empty hand raises ValueError before anything is written
raise_on_empty_hand ==
  /\ err' = "ValueError"
  /\ decision' = NoDecision
  /\ UNCHANGED <<game_vars, context_stats>>

\* the turn on a non-empty hand
play_round(claim, bluff, noise, r, bot_claim) ==
  LET actual_strength == IF bluff THEN SeqMin(player_hand) ELSE SeqMax(player_hand)
      hand1   == ListRemove(player_hand, actual_strength)
      d       == decide_call(context_stats, actual_strength, claim, noise)
      out     == resolve(d.call, bluff)
      hist1   == log_event(history, round_num, "player", actual_strength, claim,
                           bluff, d.call, out.result)
  IN /\ player_hand' = hand1
     /\ player_score' = player_score + out.player
     /\ decision' = d
     /\ context_stats' = update_stats(context_stats, actual_strength, claim, bluff)
     /\ IF bot_hand = <<>>
        THEN \* bot_act raises on its empty hand, after the player's part
             /\ bot_score' = bot_score + out.bot
             /\ history' = hist1
             /\ last_message' = Message(out.text, d.suspicion, FALSE)
             /\ err' = "ValueError"
             /\ UNCHANGED <<bot_hand, round_num, game_over>>
        ELSE
          LET b == bot_act(bot_hand, bot_score + out.bot, hist1, round_num,
                           r, bot_claim)
              over == round_ends_game(round_num + 1, hand1, b.hand)
          IN /\ bot_claim \in bot_claim_options(r < BOT_BLUFF_PCT)
             /\ bot_hand' = b.hand
             /\ bot_score' = b.score
             /\ history' = b.history
             /\ round_num' = round_num + 1
             /\ game_over' = (game_over \/ over)
             /\ last_message' = Message(out.text, d.suspicion, over)
             /\ err' = "none"

\* player_turn looking the claim up with claim_to_strength first, which
\* raises KeyError on a claim outside its table
player_turn_checked(claim, bluff, noise, r, bot_claim) ==
  IF claim \notin Claims
  THEN /\ err' = "KeyError"
       /\ decision' = NoDecision
       /\ UNCHANGED <<game_vars, context_stats>>
  ELSE IF player_hand = <<>>
  THEN raise_on_empty_hand
  ELSE play_round(claim, bluff, noise, r, bot_claim)

player_turn(claim, bluff, noise, r, bot_claim) ==
  IF player_hand = <<>>
  THEN raise_on_empty_hand
  ELSE play_round(claim, bluff, noise, r, bot_claim)

\* ------------------------------------------------------------------------
\* The app: one session.  "Play Turn" is disabled while game_over; "Start
\* New Game" is shown only once game_over and keeps the same belief model.
\* ------------------------------------------------------------------------
TotalTurns(stats) ==
  LET RECURSIVE Sum(_)
      Sum(K) == IF K = {} THEN 0
                ELSE LET k == CHOOSE x \in K : TRUE IN stats[k][2] + Sum(K \ {k})
  IN Sum(DOMAIN stats)

Init ==
  /\ round_num = 1
  /\ player_hand \in PlayerHands
  /\ player_score = 0
  /\ bot_hand \in BotHands
  /\ bot_score = 0
  /\ history = <<>>
  /\ last_message = Message("New game started. Your move!", NoSuspicion, FALSE)
  /\ game_over = FALSE
  /\ context_stats = EmptyStats
  /\ decision = NoDecision
  /\ err = "none"

\* inputs of the session model: two of the three claims, and the bot's
\* claim draw held to the one value both of its lists offer
SessionClaims == {"medium", "high"}

SessionBotRand == {BOT_BLUFF_PCT - 1, BOT_BLUFF_PCT}

SessionBotClaims == {"medium"}

\* PlayTurn with the button never disabled
PlayTurn_always_enabled ==
  /\ TotalTurns(context_stats) < MaxTurns \/ game_over
  /\ \E claim \in SessionClaims, bluff \in BOOLEAN, noise \in Noise,
        r \in SessionBotRand, bot_claim \in SessionBotClaims :
       player_turn(claim, bluff, noise, r, bot_claim)

PlayTurn ==
  /\ ~game_over
  /\ TotalTurns(context_stats) < MaxTurns
  /\ \E claim \in SessionClaims, bluff \in BOOLEAN, noise \in Noise,
        r \in SessionBotRand, bot_claim \in SessionBotClaims :
       player_turn(claim, bluff, noise, r, bot_claim)

NewGame ==
  /\ game_over
  /\ \E ph \in PlayerHands, bh \in BotHands : init_game(ph, bh)

Next == PlayTurn \/ NewGame

Spec == Init /\ [][Next]_vars

\* ------------------------------------------------------------------------
\* The bare engine API: player_turn called by any caller, in any state and
\* with any claim string; init_game once a game has ended.
\* ------------------------------------------------------------------------
\* a recognised claim and an unrecognised one
CoreClaims == {"high", "royal"}

CorePlayerTurn ==
  /\ TotalTurns(context_stats) < MaxCoreTurns \/ player_hand = <<>>
  /\ \E claim \in CoreClaims, bluff \in BOOLEAN, noise \in Noise,
        r \in SessionBotRand, bot_claim \in SessionBotClaims :
       player_turn(claim, bluff, noise, r, bot_claim)

CoreInitGame ==
  /\ game_over
  /\ \E ph \in PlayerHands, bh \in BotHands : init_game(ph, bh)

NextCore == CorePlayerTurn \/ CoreInitGame

InitCore ==
  /\ Init
  /\ player_hand = <<1, 3, 2, 3, 1>>

SpecCore == InitCore /\ [][NextCore]_vars

\* ------------------------------------------------------------------------
\* The belief model on its own: any sequence of observations and queries.
\* ------------------------------------------------------------------------
\* one weak and one strong card, observed under one claim
BeliefStrengths == {2, 9}

BeliefClaims == {"high"}

Observe ==
  \E s \in BeliefStrengths, c \in BeliefClaims, did_bluff \in BOOLEAN :
    /\ StatsGet(context_stats, <<strength_bucket(s), c>>)[2] < MaxCount
    /\ context_stats' = update_stats(context_stats, s, c, did_bluff)
    /\ decision' = NoDecision
    /\ UNCHANGED <<game_vars, err>>

Decide ==
  \E s \in BeliefStrengths \cup {5}, c \in BeliefClaims, noise \in Noise :
    /\ decision' = decide_call(context_stats, s, c, noise)
    /\ UNCHANGED <<game_vars, context_stats, err>>

InitBelief ==
  /\ Init
  /\ player_hand = <<2, 9, 5, 1, 8>>

NextBelief == Observe \/ Decide

SpecBelief == InitBelief /\ [][NextBelief]_vars

\* ------------------------------------------------------------------------
\* One game played to its end, with every draw the bot can make: the player
\* always claims "high", bluffing or not.
\* ------------------------------------------------------------------------
SingleClaims == {"high"}

SinglePlayTurn ==
  /\ ~game_over
  /\ \E claim \in SingleClaims, bluff \in BOOLEAN, noise \in Noise,
        r \in BotRand, bot_claim \in Claims :
       player_turn(claim, bluff, noise, r, bot_claim)

InitSingle ==
  /\ Init
  /\ player_hand = <<1, 3, 2, 3, 1>>

NextSingle == SinglePlayTurn

SpecSingle == InitSingle /\ [][NextSingle]_vars

\* one game in which the player keeps submitting turns while one can be played
LivePlayTurn ==
  /\ ~game_over
  /\ \E claim \in SingleClaims, bluff \in BOOLEAN, noise \in Noise,
        r \in SessionBotRand, bot_claim \in {"medium", "high"} :
       player_turn(claim, bluff, noise, r, bot_claim)

NextLive == LivePlayTurn

SpecSingleLive == InitSingle /\ [][NextLive]_vars /\ WF_vars(NextLive)

\* ------------------------------------------------------------------------
\* Properties
\* ------------------------------------------------------------------------
\* a step that ran a whole round of player_turn
TurnStep == round_num' = round_num + 1

\* a step that replaced the game by a new one
NewGameStep == round_num' = 1 /\ history' = <<>> /\ ~game_over' /\ game_over

FreshGame ==
  /\ round_num = 1
  /\ Len(player_hand) = HAND_SIZE
  /\ Len(bot_hand) = HAND_SIZE
  /\ player_score = 0
  /\ bot_score = 0
  /\ history = <<>>
  /\ ~game_over

\* the player's and the bot's record of the round a TurnStep played
PlayerRec == history'[Len(history) + 1]

BotRec == history'[Len(history) + 2]

\* C1: game_over is true exactly when round_num > 10 or both hands are
\* empty: set at the end of the first round where that holds, not earlier.
C1_GameOverIff ==
  game_over <=> (round_num > 10 \/ (Len(player_hand) = 0 /\ Len(bot_hand) = 0))

C1_Witness ==
  game_over /\ round_num = HAND_SIZE + 1 /\ player_hand = <<>> /\ bot_hand = <<>>

\* C2: terminal is absorbing.  A step from a terminal state either keeps
\* game_over or is the start of a new game (a fresh GameState), and no
\* player_turn, completed or failed, runs from a terminal state in the app.
C2_TerminalAbsorbing ==
  [][ /\ game_over => (game_over' \/ FreshGame')
      /\ (TurnStep \/ err' # "none") => ~game_over ]_vars

C2_Witness ==
  FreshGame /\ TotalTurns(context_stats) = HAND_SIZE

\* C3: after N completed turns the log has 2N records; records 2k-1 and 2k
\* are the player's then the bot's, both with round k; a turn appends two
\* records and leaves the earlier ones as they were.
C3_HistoryShape ==
  /\ [](/\ Len(history) = 2 * (round_num - 1)
        /\ \A k \in 1..(round_num - 1) :
             /\ history[2 * k - 1].actor = "player"
             /\ history[2 * k - 1].round = k
             /\ history[2 * k].actor = "bot"
             /\ history[2 * k].round = k)
  /\ [][TurnStep =>
          /\ Len(history') = Len(history) + 2
          /\ SubSeq(history', 1, Len(history)) = history]_vars

C3_Witness ==
  Len(history) = 2 * HAND_SIZE /\ round_num = HAND_SIZE + 1

\* C4: the player's part of a turn scores by the 2x2 table on (bluff,
\* called); the bot's score moves further only by the bot's own bluff in the
\* same round; the scores start at 0 and never decrease within a game.
C4_ScoreTable ==
  /\ [](history = <<>> => (player_score = 0 /\ bot_score = 0))
  /\ [][TurnStep =>
          LET bluff  == PlayerRec.did_bluff = 1
              called == PlayerRec.bot_called = 1
              own    == bot_score' - BotRec.did_bluff
          IN /\ (bluff /\ called) =>
                  /\ own = bot_score + 1
                  /\ player_score' = player_score
                  /\ PlayerRec.result = "Bot caught your bluff (+1 Bot)"
             /\ (~bluff /\ called) =>
                  /\ player_score' = player_score + 1
                  /\ own = bot_score
                  /\ PlayerRec.result = "Bot wrongly called bluff (+1 You)"
             /\ (bluff /\ ~called) =>
                  /\ player_score' = player_score + 1
                  /\ own = bot_score
                  /\ PlayerRec.result = "Your bluff succeeded (+1 You)"
             /\ (~bluff /\ ~called) =>
                  /\ player_score' = player_score
                  /\ own = bot_score
                  /\ PlayerRec.result = "Honest play (no call)"]_vars
  /\ [][~NewGameStep =>
          (player_score' >= player_score /\ bot_score' >= bot_score)]_vars

\* a game whose log shows all four cells of the table
C4_Witness ==
  \A res \in {"Bot caught your bluff (+1 Bot)",
              "Bot wrongly called bluff (+1 You)",
              "Your bluff succeeded (+1 You)",
              "Honest play (no call)"} :
    \E i \in 1..Len(history) : history[i].result = res

\* C5: a completed turn changes the belief model by exactly the player's
\* observation: the key (bucket(played strength), claim) gains 1 in
\* total_count and 1 in bluff_count iff the player bluffed, from (0, 0) if
\* the key was absent; no other key changes; the bot's play leaves no trace.
C5_OneObservation ==
  [][TurnStep =>
       LET key == <<strength_bucket(PlayerRec.actual_strength), PlayerRec.claim>>
           old == IF key \in DOMAIN context_stats
                  THEN context_stats[key] ELSE <<0, 0>>
       IN /\ DOMAIN context_stats' = (DOMAIN context_stats) \cup {key}
          /\ context_stats'[key] = <<old[1] + PlayerRec.did_bluff, old[2] + 1>>
          /\ \A k \in (DOMAIN context_stats) \ {key} :
               context_stats'[k] = context_stats[k]]_vars

\* a bluff the bot called, counted in a context seen before
C5_Witness ==
  /\ history # <<>>
  /\ \E i \in 1..Len(history) :
       /\ history[i].actor = "player"
       /\ history[i].did_bluff = 1
       /\ history[i].bot_called = 1
  /\ \E k \in DOMAIN context_stats :
       context_stats[k][1] >= 3 /\ context_stats[k][2] > context_stats[k][1]
  /\ Cardinality(DOMAIN context_stats) >= 2

\* C6: in a session every statistic has 0 <= bluff_count <= total_count, no
\* count decreases and no entry disappears; a new game resets the game and
\* leaves the belief model's mapping as it was.
C6_StatsPersist ==
  /\ [](\A k \in DOMAIN context_stats :
          0 <= context_stats[k][1] /\ context_stats[k][1] <= context_stats[k][2])
  /\ [][/\ DOMAIN context_stats \subseteq DOMAIN context_stats'
        /\ \A k \in DOMAIN context_stats :
             /\ context_stats'[k][1] >= context_stats[k][1]
             /\ context_stats'[k][2] >= context_stats[k][2]]_vars
  /\ [][NewGameStep =>
          /\ FreshGame'
          /\ context_stats' = context_stats]_vars

\* the second game of a session, one turn in, on top of the first game's counts
C6_Witness ==
  /\ round_num = 2
  /\ TotalTurns(context_stats) = HAND_SIZE + 1

\* a step that is a call of player_turn with the given claim
AnyPlayerTurn(claim) ==
  \E bluff \in BOOLEAN, noise \in Noise, r \in BotRand, bot_claim \in Claims :
    player_turn(claim, bluff, noise, r, bot_claim)

\* C7 as stated: a player_turn on an empty hand or a finished game is
\* rejected with an invalid-turn error and changes nothing.
C7_RejectedInvalidTurn ==
  [][\A c \in CoreClaims :
       ((player_hand = <<>> \/ game_over) /\ AnyPlayerTurn(c)) =>
          /\ err' = "InvalidTurn"
          /\ UNCHANGED <<game_vars, context_stats>>]_vars

\* C7 amended: such a call fails with the ValueError of min()/max() on the
\* empty hand, and hands, scores, log, round_num, game_over, last_message
\* and the statistics are as before the call.
C7_RejectedValueError ==
  [][\A c \in CoreClaims :
       ((player_hand = <<>> \/ game_over) /\ AnyPlayerTurn(c)) =>
          /\ err' = "ValueError"
          /\ UNCHANGED <<game_vars, context_stats>>]_vars

\* a call refused on a finished game
C7_Witness ==
  game_over /\ player_hand = <<>> /\ err = "ValueError"

\* C8 as stated: a player_turn with a claim outside {low, medium, high}
\* changes nothing: no card, score, log record, round or statistic.
C8_UnknownClaimRejected ==
  [][\A c \in CoreClaims \ Claims :
       AnyPlayerTurn(c) =>
          /\ UNCHANGED <<game_vars, context_stats>>
          /\ \A k \in DOMAIN context_stats' : k[2] \in Claims]_vars

\* C8 amended: on a non-empty hand a player_turn with a claim outside
\* {low, medium, high} runs like any other turn: one card leaves the hand,
\* two records are logged, the player's carrying that claim, the round
\* advances and the statistic of (bucket, claim) counts the play.
C8_UnknownClaimPlayed ==
  [][\A c \in CoreClaims \ Claims :
       (player_hand # <<>> /\ AnyPlayerTurn(c)) =>
          LET key == <<strength_bucket(PlayerRec.actual_strength), c>>
          IN /\ err' = "none"
             /\ Len(player_hand') = Len(player_hand) - 1
             /\ Len(history') = Len(history) + 2
             /\ PlayerRec.claim = c
             /\ round_num' = round_num + 1
             /\ key \in DOMAIN context_stats'
             /\ context_stats'[key][2] = StatsGet(context_stats, key)[2] + 1]_vars

\* the belief model holds an entry for an unrecognised claim
C8_Witness ==
  \E k \in DOMAIN context_stats : k[2] \notin Claims /\ context_stats[k][2] >= 2

Strengths == MIN_STRENGTH..MAX_STRENGTH

\* C9: the estimate of every context, seen or unseen, lies strictly between
\* 0 and 1, in every state a sequence of observations reaches.
C9_EstimateStrictlyInside ==
  /\ \A k \in DOMAIN context_stats :
       0 <= context_stats[k][1] /\ context_stats[k][1] <= context_stats[k][2]
  /\ \A s \in Strengths, c \in Claims :
       LET p == bluff_probability(context_stats, s, c)
       IN 0 < p[1] /\ p[1] < p[2]

\* one context never bluffed in, one always bluffed in, the others unseen
C9_Witness ==
  /\ <<"weak", "high">> \in DOMAIN context_stats
  /\ <<"strong", "high">> \in DOMAIN context_stats
  /\ context_stats[<<"weak", "high">>] = <<0, 5>>
  /\ context_stats[<<"strong", "high">>] = <<5, 5>>
  /\ <<"medium", "high">> \notin DOMAIN context_stats

\* C10 as stated: the estimate of an observed context is never the prior 0.35.
C10_PriorOnlyWhenUnseen ==
  \A s \in Strengths, c \in Claims :
    LET p == bluff_probability(context_stats, s, c)
    IN <<strength_bucket(s), c>> \in DOMAIN context_stats =>
         p[1] * 100 # PRIOR_PCT * p[2]

\* C10 amended: the estimate of an observed context is the prior 0.35 only
\* at bluff_count = 6, total_count = 17, where (6 + 1) / (17 + 3) = 7 / 20.
C10_PriorOnlyAtSixOfSeventeen ==
  \A s \in Strengths, c \in Claims :
    LET p   == bluff_probability(context_stats, s, c)
        key == <<strength_bucket(s), c>>
    IN (key \in DOMAIN context_stats /\ p[1] * 100 = PRIOR_PCT * p[2]) =>
         context_stats[key] = <<6, 17>>

\* an observed context whose estimate is 7 / 20, as decide_call reports it
C10_Witness ==
  /\ <<"weak", "high">> \in DOMAIN context_stats
  /\ context_stats[<<"weak", "high">>] = <<6, 17>>
  /\ decision.p_bluff = <<7, 20>>
  /\ decision.suspicion = PRIOR_PCT

\* C11 as stated: the suspicion decide_call returns is the estimate times
\* 100 rounded to the nearest integer, within 0..100.
C11_SuspicionRounded ==
  decision # NoDecision =>
    LET p == decision.p_bluff
        s == decision.suspicion
    IN /\ s \in 0..100
       /\ 2 * (100 * p[1] - s * p[2]) <= p[2]
       /\ 2 * (s * p[2] - 100 * p[1]) <= p[2]

\* C11 amended: the suspicion is the estimate times 100 cut down to an
\* integer, int(p_bluff * 100), within 0..100; counts (3, 3) give 66.
C11_SuspicionTruncated ==
  decision # NoDecision =>
    LET p == decision.p_bluff
        s == decision.suspicion
    IN /\ s \in 0..100
       /\ s * p[2] <= 100 * p[1]
       /\ 100 * p[1] < (s + 1) * p[2]

\* decide_call asked about a context with counts (3, 3)
C11_Witness ==
  /\ <<"weak", "high">> \in DOMAIN context_stats
  /\ context_stats[<<"weak", "high">>] = <<3, 3>>
  /\ decision.p_bluff = <<4, 6>>
  /\ decision.suspicion = 66

\* C12: on a turn whose context (bucket(played strength), claim) is unseen
\* the bot does not call, whatever the noise: an honest play gets "Honest
\* play (no call)" and no point for either side, a bluff succeeds.
C12_UnseenNeverCalled ==
  [][TurnStep =>
       LET key == <<strength_bucket(PlayerRec.actual_strength), PlayerRec.claim>>
       IN key \notin DOMAIN context_stats =>
            /\ PlayerRec.bot_called = 0
            /\ decision'.call = FALSE
            /\ PlayerRec.did_bluff = 0 =>
                 /\ PlayerRec.result = "Honest play (no call)"
                 /\ player_score' = player_score
                 /\ bot_score' = bot_score + BotRec.did_bluff
            /\ PlayerRec.did_bluff = 1 =>
                 /\ PlayerRec.result = "Your bluff succeeded (+1 You)"
                 /\ player_score' = player_score + 1
                 /\ bot_score' = bot_score + BotRec.did_bluff]_vars

\* an honest play and then a bluff, each in a context not seen before
C12_Witness ==
  /\ Len(history) = 4
  /\ history[1].did_bluff = 0
  /\ history[1].result = "Honest play (no call)"
  /\ history[3].did_bluff = 1
  /\ history[3].claim # history[1].claim
  /\ history[3].result = "Your bluff succeeded (+1 You)"

\* C13: after ten observations of (weak, high), all bluffs, the estimate is
\* 11/13 and the bot calls under every noise in [-0.05, 0.05]; whenever the
\* estimate is above 0.60 the bot calls whatever the noise.  (Every mapping
\* is reached with decision = NoDecision; all noise values are tried there.)
C13_CallsAboveSixty ==
  /\ (/\ <<"weak", "high">> \in DOMAIN context_stats
      /\ context_stats[<<"weak", "high">>] = <<10, 10>>) =>
        /\ bluff_probability(context_stats, 2, "high") = <<11, 13>>
        /\ \A noise \in (0 - 50)..50 :
             decide_call(context_stats, 2, "high", noise).call
  /\ decision = NoDecision =>
       \A s \in BeliefStrengths, noise \in (0 - 50)..50 :
         LET d == decide_call(context_stats, s, "high", noise)
         IN 5 * d.p_bluff[1] > 3 * d.p_bluff[2] => d.call
  /\ (decision # NoDecision /\ 5 * decision.p_bluff[1] > 3 * decision.p_bluff[2])
       => decision.call

\* decide_call asked after ten bluffs out of ten in (weak, high)
C13_Witness ==
  /\ <<"weak", "high">> \in DOMAIN context_stats
  /\ context_stats[<<"weak", "high">>] = <<10, 10>>
  /\ decision.p_bluff = <<11, 13>>
  /\ decision.call

\* how often v occurs in the hand s
Occurrences(s, v) == Cardinality({i \in 1..Len(s) : s[i] = v})

\* hand t is hand s with one card of strength v taken out
OneCardLess(s, t, v) ==
  \A w \in Strengths :
    Occurrences(t, w) = Occurrences(s, w) - (IF w = v THEN 1 ELSE 0)

IsWeakest(s, v) == (\E i \in 1..Len(s) : s[i] = v) /\ (\A i \in 1..Len(s) : s[i] >= v)

IsStrongest(s, v) == (\E i \in 1..Len(s) : s[i] = v) /\ (\A i \in 1..Len(s) : s[i] <= v)

\* the points the player's part of the round gave the bot
CaughtPoint == IF PlayerRec.did_bluff = 1 /\ PlayerRec.bot_called = 1 THEN 1 ELSE 0

\* C14: the bot's action of a round.  Bluffing, it plays its weakest card,
\* claims medium or high and gains exactly 1; honest, it plays its strongest
\* card, claims low, medium or high and gains nothing; the player's score is
\* not touched by it and its record has bot_called = 0.
C14_BotAction ==
  [][TurnStep =>
       /\ BotRec.actor = "bot"
       /\ BotRec.bot_called = 0
       /\ OneCardLess(bot_hand, bot_hand', BotRec.actual_strength)
       /\ player_score' = player_score
            + (IF PlayerRec.did_bluff # PlayerRec.bot_called THEN 1 ELSE 0)
       /\ BotRec.did_bluff \in {0, 1}
       /\ BotRec.did_bluff = 1 =>
            /\ IsWeakest(bot_hand, BotRec.actual_strength)
            /\ BotRec.claim \in {"medium", "high"}
            /\ bot_score' = bot_score + CaughtPoint + 1
       /\ BotRec.did_bluff = 0 =>
            /\ IsStrongest(bot_hand, BotRec.actual_strength)
            /\ BotRec.claim \in {"low", "medium", "high"}
            /\ bot_score' = bot_score + CaughtPoint]_vars

\* a game in which the bot bluffed with "high" and with "medium" and was
\* honest with "low"
C14_Witness ==
  /\ \E i \in 1..Len(history) :
       history[i].actor = "bot" /\ history[i].did_bluff = 1 /\ history[i].claim = "high"
  /\ \E i \in 1..Len(history) :
       history[i].actor = "bot" /\ history[i].did_bluff = 1 /\ history[i].claim = "medium"
  /\ \E i \in 1..Len(history) :
       history[i].actor = "bot" /\ history[i].did_bluff = 0 /\ history[i].claim = "low"

\* the observations tried in either order: two buckets, two claims, bluff or not
CommuteInputs == {2, 9} \X {"low", "high"} \X BOOLEAN

\* C15: observations commute.  From every reachable mapping, observing A
\* then B gives the mapping that observing B then A gives, for the same
\* context and for different ones, and so the same estimates.
\* (Every mapping is reached with decision = NoDecision, right after the
\* observation that built it; the pairs are tried there.)
C15_ObservationsCommute ==
  decision = NoDecision =>
  \A A \in CommuteInputs, B \in CommuteInputs :
    LET ab == update_stats(update_stats(context_stats, A[1], A[2], A[3]),
                           B[1], B[2], B[3])
        ba == update_stats(update_stats(context_stats, B[1], B[2], B[3]),
                           A[1], A[2], A[3])
    IN /\ ab = ba
       /\ \A s \in BeliefStrengths, c \in {"low", "high"} :
            bluff_probability(ab, s, c) = bluff_probability(ba, s, c)

\* a mapping built from a bluff and an honest play of one context and a
\* play of another
C15_Witness ==
  /\ DOMAIN context_stats = {<<"weak", "high">>, <<"strong", "high">>}
  /\ context_stats[<<"weak", "high">>] = <<1, 2>>
  /\ context_stats[<<"strong", "high">>] = <<1, 1>>
  /\ decision = NoDecision

\* C16: on a non-empty hand the card played is the weakest when bluffing
\* and the strongest when honest; the hand loses exactly one card of that
\* strength; the log records that strength; the estimate behind the call and
\* the statistic updated are those of (bucket of that strength, claim).
C16_CardPlayed ==
  [][TurnStep =>
       LET v   == PlayerRec.actual_strength
           key == <<strength_bucket(v), PlayerRec.claim>>
       IN /\ PlayerRec.actor = "player"
          /\ PlayerRec.did_bluff = 1 => IsWeakest(player_hand, v)
          /\ PlayerRec.did_bluff = 0 => IsStrongest(player_hand, v)
          /\ Len(player_hand') = Len(player_hand) - 1
          /\ OneCardLess(player_hand, player_hand', v)
          /\ decision'.p_bluff =
               (IF key \in DOMAIN context_stats
                THEN <<context_stats[key][1] + 1, context_stats[key][2] + 3>>
                ELSE <<35, 100>>)
          /\ key \in DOMAIN context_stats'
          /\ context_stats'[key][2] = StatsGet(context_stats, key)[2] + 1]_vars

\* a bluff with the weakest card, which is not the first card of the hand
C16_Witness ==
  /\ Len(history) = 2
  /\ history[1].did_bluff = 1
  /\ history[1].actual_strength = 1
  /\ player_hand = <<2, 9, 5, 8>>

\* C17: in every state of a game both hands have 5 - (round_num - 1) cards;
\* a turn takes one card from each and nothing adds any, so bot_act never
\* meets an empty bot hand while the player still holds a card.
C17_HandSizes ==
  /\ [](/\ Len(player_hand) = 5 - (round_num - 1)
        /\ Len(bot_hand) = 5 - (round_num - 1)
        /\ (player_hand # <<>> => bot_hand # <<>>)
        /\ err = "none")
  /\ [][TurnStep =>
          /\ Len(player_hand') = Len(player_hand) - 1
          /\ Len(bot_hand') = Len(bot_hand) - 1]_vars
  /\ [][~NewGameStep =>
          /\ Len(player_hand') <= Len(player_hand)
          /\ Len(bot_hand') <= Len(bot_hand)]_vars

C17_Witness ==
  round_num = 4 /\ Len(player_hand) = 2 /\ Len(bot_hand) = 2 /\ err = "none"

\* C18: every game terminates when the player keeps submitting turns, at the
\* end of its 5th turn and not before: game_over eventually holds, while it is
\* not over a turn can be played and every turn advances the round, game_over
\* holds exactly at round_num = 6 (ten records logged), and round_num never
\* passes 6, so the limit of 10 rounds is never what ends the game.
C18_EndsAfterFiveTurns ==
  /\ <>game_over
  /\ [](/\ round_num <= 6
        /\ ~(round_num > MAX_ROUNDS)
        /\ game_over <=> round_num = 6
        /\ game_over <=> Len(history) = 10
        /\ game_over => player_hand = <<>> /\ bot_hand = <<>>
        /\ ~game_over => ENABLED LivePlayTurn)
  /\ [][round_num' = round_num + 1 /\ err' = "none"]_vars

\* the end of a game in which both sides scored
C18_Witness ==
  /\ game_over
  /\ round_num = 6
  /\ last_message.game_over_suffix
  /\ player_score >= 1
  /\ bot_score >= 1

\* how many records of the actor satisfy the test
PlayerRecords(Test(_)) ==
  Cardinality({i \in 1..Len(history) : history[i].actor = "player" /\ Test(history[i])})

BotRecords(Test(_)) ==
  Cardinality({i \in 1..Len(history) : history[i].actor = "bot" /\ Test(history[i])})

\* C19: the log accounts for the scores.  The player's score is the number
\* of player records with did_bluff # bot_called; the bot's score is the
\* number of player records with did_bluff = bot_called = 1 plus the number
\* of bot records with did_bluff = 1; a round adds at most 2 to their sum.
C19_ScoresFromLog ==
  /\ [](/\ player_score = PlayerRecords(LAMBDA rec : rec.did_bluff # rec.bot_called)
        /\ bot_score = PlayerRecords(LAMBDA rec : rec.did_bluff = 1 /\ rec.bot_called = 1)
                         + BotRecords(LAMBDA rec : rec.did_bluff = 1))
  /\ [][TurnStep =>
          (player_score' + bot_score') - (player_score + bot_score) \in 0..2]_vars

\* a game with a caught bluff, a bluffing bot and a round worth two points
C19_Witness ==
  /\ PlayerRecords(LAMBDA rec : rec.did_bluff = 1 /\ rec.bot_called = 1) >= 1
  /\ BotRecords(LAMBDA rec : rec.did_bluff = 1) >= 1
  /\ player_score >= 2
  /\ bot_score >= 3
  /\ \E k \in 1..(round_num - 1) :
       /\ history[2 * k - 1].did_bluff # history[2 * k - 1].bot_called
       /\ history[2 * k].did_bluff = 1

\* C20: the call of a turn is decided on the statistics as they stood before
\* the turn's own observation; the bot calls only in a context whose counts
\* then satisfy 2 * bluff_count > total_count + 1; and while the session
\* holds no bluff of the player, no play is called and the player has 0.
C20_CallNeedsBluffHistory ==
  /\ [][TurnStep =>
          LET key == <<strength_bucket(PlayerRec.actual_strength), PlayerRec.claim>>
          IN /\ decision'.p_bluff =
                  (IF key \in DOMAIN context_stats
                   THEN <<context_stats[key][1] + 1, context_stats[key][2] + 3>>
                   ELSE <<35, 100>>)
             /\ (PlayerRec.bot_called = 1) = decision'.call
             /\ PlayerRec.bot_called = 1 =>
                  /\ key \in DOMAIN context_stats
                  /\ 2 * context_stats[key][1] > context_stats[key][2] + 1]_vars
  /\ []((\A k \in DOMAIN context_stats : context_stats[k][1] = 0) =>
          /\ player_score = 0
          /\ \A i \in 1..Len(history) : history[i].bot_called = 0)

\* the third play of a context after two bluffs in it, called by the bot
C20_Witness ==
  /\ Len(history) = 6
  /\ history[5].bot_called = 1
  /\ decision.call
  /\ decision.p_bluff = <<3, 5>>

====
